---- MODULE Spec2Model ----
(***************************************************************************)
(* Model of app.py: the two HTTP handlers write_config and save_config and *)
(* the serial exchange they run (open, write, drain window, close).        *)
(* One request is followed from the arrival of its JSON body to the        *)
(* response.  Strings are sequences of character tokens so that strip,     *)
(* encode, decode and join are computed and not assumed.                    *)
(***************************************************************************)
EXTENDS Integers, Sequences, FiniteSets, TLC

\* ---- program constants (seconds) ----
SERIAL_TIMEOUT == 1
READ_RESPONSE_DURATION == 2

\* ---- bounds of the model ----
TicksPerSecond == 1      \* resolution of the modelled clock
MaxCommands == 2         \* longest commands list of a request
MaxEvents == 2           \* device events of one request: lines sent and failed reads
MaxCmdLen == 3           \* longest command string of the single-command requests

Ticks(seconds) == seconds * TicksPerSecond

\* ---- state of one request ----
VARIABLES
    endpoint,              \* route of the request
    data,                  \* request.get_json()
    pc,                    \* position in the handler
    port, baudrate, commands,   \* locals read from the body
    ser,                   \* state of the serial handle: "none", "open", "closed"
    idx,                   \* position of the for loop in commands
    received_data_lines,   \* the transcript
    elapsed,               \* time.time() - start_time in ticks: set to 0 by
                           \* start_time = time.time(), advanced by sleep and readline
    response,              \* the (body, code) pair returned
    rx,                    \* lines waiting in the port's input buffer
    arrived, readErrors,   \* environment budgets
    oplog,                 \* calls made on the serial transport, in order
    other                  \* the request of the other thread while this one
                           \* runs: its locals and its port; NoRequest when
                           \* the request runs alone

vars == <<endpoint, data, pc, port, baudrate, commands, ser, idx,
          received_data_lines, elapsed, response, rx,
          arrived, readErrors, oplog, other>>

\* ---- characters and bytes ----
Whitespace == {"SP", "CR", "LF"}
AsciiChars == {"A", "B", "K", "S", "V", "E", "C", "O", "N", "F", "I", "G"} \cup Whitespace
NonAsciiChars == {"xE9", "xFF"}

IsAscii(c) == c \in AsciiChars
IsSpace(c) == c \in Whitespace

RECURSIVE LStrip(_)
LStrip(s) == IF s = <<>> THEN s
             ELSE IF IsSpace(Head(s)) THEN LStrip(Tail(s)) ELSE s

RECURSIVE RStrip(_)
RStrip(s) == IF s = <<>> THEN s
             ELSE IF IsSpace(s[Len(s)]) THEN RStrip(SubSeq(s, 1, Len(s) - 1)) ELSE s

\* str.strip()
Strip(s) == RStrip(LStrip(s))

\* str.encode('ascii'): raises UnicodeEncodeError on a non-ASCII character
CanEncodeAscii_Ignore(s) == TRUE
CanEncodeAscii(s) == \A i \in 1..Len(s) : IsAscii(s[i])

\* bytes.decode('ascii', errors='ignore'): undecodable bytes are dropped
DecodeAsciiIgnore(b) == SelectSeq(b, IsAscii)

\* "\n".join(received_data_lines)
RECURSIVE Join(_)
Join(lines) == IF lines = <<>> THEN <<>>
               ELSE IF Len(lines) = 1 THEN Head(lines)
               ELSE Head(lines) \o <<"LF">> \o Join(Tail(lines))

\* ---- JSON values of the request body ----
Absent == [t |-> "absent"]
Null == [t |-> "null"]
JStr(s) == [t |-> "str", v |-> s]
JInt(n) == [t |-> "int", v |-> n]
JList(l) == [t |-> "list", v |-> l]

\* Python truthiness of a decoded JSON value
Truthy(x) == CASE x.t = "absent" -> FALSE
               [] x.t = "null" -> FALSE
               [] x.t = "str" -> x.v # ""
               [] x.t = "int" -> x.v # 0
               [] x.t = "list" -> x.v # <<>>
               [] OTHER -> FALSE

IsNone(x) == x.t \in {"absent", "null"}

\* dict.get(key): None when the key is missing
Get(d, k) == IF d[k].t = "absent" THEN Null ELSE d[k]

PortName == "ttyUSB0"
PortVals == {Absent, Null, JStr(""), JStr(PortName)}
BaudVals == {Absent, Null, JInt(0), JInt(9600), JInt(-1)}

CmdPool == { <<"A">>, <<"SP", "B", "SP">>, <<"xE9">> }

RECURSIVE SeqsUpTo(_, _)
SeqsUpTo(S, n) == IF n = 0 THEN {<<>>}
                  ELSE LET shorter == SeqsUpTo(S, n - 1)
                       IN shorter \cup {Append(s, x) : s \in {q \in shorter : Len(q) = n - 1}, x \in S}

CommandsVals == {Absent, Null} \cup {JList(l) : l \in SeqsUpTo(CmdPool, MaxCommands)}

NoData == [t |-> "nodata"]
WriteBodies == {NoData} \cup
    {[t |-> "obj", port |-> p, baudrate |-> b, commands |-> c] :
        p \in PortVals, b \in BaudVals, c \in CommandsVals}
SaveBodies == {NoData} \cup
    {[t |-> "obj", port |-> p, baudrate |-> b, commands |-> Absent] :
        p \in PortVals, b \in BaudVals}

\* lines the device can send (bytes, terminator included)
LinePool == { <<"K", "CR", "LF">>, <<"CR", "LF">>, <<"xFF", "LF">> }

\* ---- exceptions ----
SerialException(text) == [type |-> "SerialException", text |-> text]
OtherException(type, text) == [type |-> type, text |-> text]

\* ---- responses: (jsonify(...), code) ----
ErrorResponse(code, msg) ==
    [code |-> code, body |-> [status |-> "error", message |-> msg]]

WSuccessResponse_TrailingNewline(lines) ==
    [code |-> 200,
     body |-> [status |-> "success",
               message |-> <<"Configuration commands sent successfully.">>,
               received_data |-> Join(lines) \o <<"LF">>]]
WSuccessResponse(lines) ==
    [code |-> 200,
     body |-> [status |-> "success",
               message |-> <<"Configuration commands sent successfully.">>,
               received_data |-> Join(lines)]]

WSerialErrorResponse_WithData(p, e) ==
    [code |-> 500,
     body |-> [status |-> "error",
               message |-> <<"Failed to open or communicate with serial port '", p.v,
                             "'. Error: ", e.text>>,
               received_data |-> Join(received_data_lines)]]
WSerialErrorResponse(p, e) ==
    ErrorResponse(500, <<"Failed to open or communicate with serial port '", p.v,
                         "'. Error: ", e.text>>)

WUnexpectedErrorResponse_DefaultCode(p, e) ==
    ErrorResponse(200, <<"An unexpected error occurred: ", e.text>>)
WUnexpectedErrorResponse(p, e) ==
    ErrorResponse(500, <<"An unexpected error occurred: ", e.text>>)

\* the except clauses of write_config
WHandle(p, e) == IF e.type = "SerialException" THEN WSerialErrorResponse(p, e)
                 ELSE WUnexpectedErrorResponse(p, e)

SSuccessResponse(lines) ==
    [code |-> 200,
     body |-> [status |-> "success",
               message |-> <<"Configuration saved to module successfully.">>,
               received_data |-> Join(lines)]]

SSerialErrorResponse(p, e) ==
    ErrorResponse(500, <<"Failed to open or communicate with serial port '", p.v,
                         "' for saving. Error: ", e.text>>)

SUnexpectedErrorResponse(p, e) ==
    ErrorResponse(500, <<"An unexpected error occurred: ", e.text>>)

\* the except clauses of save_config
SHandle(p, e) == IF e.type = "SerialException" THEN SSerialErrorResponse(p, e)
                 ELSE SUnexpectedErrorResponse(p, e)

\* ---- validation ----
\* `if not data`
DataFalsy(d) == d.t = "nodata"

\* all([port, baudrate, commands is not None])
WriteConfigValid_NoCommandsCheck(p, b, c) == Truthy(p) /\ Truthy(b)
WriteConfigValid(p, b, c) == Truthy(p) /\ Truthy(b) /\ ~IsNone(c)

\* all([port, baudrate])
SaveConfigValid(p, b) == Truthy(p) /\ Truthy(b)

\* ---- the serial transport ----
\* serial.Serial(port, baudrate, ...): a baud rate that is not a non-negative
\* integer is rejected with ValueError; otherwise the device opens or the
\* open fails with SerialException.
OpenOutcomes(p, b) ==
    IF b.t = "int" /\ b.v >= 0
    THEN {[ok |-> TRUE],
          [ok |-> FALSE, e |-> SerialException("could not open port")]}
    ELSE {[ok |-> FALSE, e |-> OtherException("ValueError", "Not a valid baudrate")]}

\* ser.in_waiting fails on a device that went away
InWaitingErrors == {OtherException("OSError", "Input/output error"),
                    SerialException("ClearCommError failed")}

ReadError == SerialException("device reports readiness to read but returned no data")
WriteError == SerialException("Write timeout")
NotIterableError == OtherException("TypeError", "object is not iterable")
EncodeError == OtherException("UnicodeEncodeError", "'ascii' codec can't encode character")

\* ---- the body of the loops ----
\* the command the for loop is at
CmdAt_Reversed(cmds, i) == cmds[Len(cmds) + 1 - i]
CmdAt(cmds, i) == cmds[i]

\* cmd.strip() + '\r\n'
FullCommand_NoStrip(cmd) == cmd \o <<"CR", "LF">>
FullCommand(cmd) == Strip(cmd) \o <<"CR", "LF">>

\* save_command = "SAVECONFIG\r\n"  (the source indents this assignment with
\* U+3000 characters, which the Python parser rejects; it is modelled as the
\* assignment it spells)
SAVE_COMMAND_NoTerminator == <<"S", "A", "V", "E", "C", "O", "N", "F", "I", "G">>
SAVE_COMMAND == <<"S", "A", "V", "E", "C", "O", "N", "F", "I", "G", "CR", "LF">>

\* (time.time() - start_time) < READ_RESPONSE_DURATION
WindowOpen_Short(dt) == dt < Ticks(READ_RESPONSE_DURATION) - 1
WindowOpen(dt) == dt < Ticks(READ_RESPONSE_DURATION)

\* ser.readline().decode('ascii', errors='ignore'): with errors='ignore' the
\* decode never raises UnicodeDecodeError
Decode(raw) == [raised |-> FALSE, text |-> DecodeAsciiIgnore(raw)]

BinaryAnnotation == <<"Received: (Binary data - cannot decode as ASCII)">>
ReceivedAnnotation(line) == <<"Received: ">> \o line
ErrorAnnotation(phase, e) == <<"Error reading during ", phase, ": ", e.text>>

\* the try block of a poll when readline() returned raw
OnLine_Prepend(lines, raw) ==
    LET line == Strip(DecodeAsciiIgnore(raw))
    IN IF line # <<>> THEN <<ReceivedAnnotation(line)>> \o lines ELSE lines
OnLine(lines, raw) ==
    LET d == Decode(raw)
    IN IF d.raised THEN Append(lines, BinaryAnnotation)
       ELSE LET line == Strip(d.text)
            IN IF line # <<>> THEN Append(lines, ReceivedAnnotation(line)) ELSE lines

\* `except Exception as e` of a poll
OnReadError_Swallowed(lines, phase, e) == lines
OnReadError(lines, phase, e) == Append(lines, ErrorAnnotation(phase, e))

NoResponse == [code |-> 0, body |-> [status |-> "none"]]
NoRequest == [pc |-> "none"]

Init ==
    /\ endpoint \in {"write_config", "save_config"}
    /\ data \in (IF endpoint = "write_config" THEN WriteBodies ELSE SaveBodies)
    /\ pc = "get_json"
    /\ port = Null /\ baudrate = Null /\ commands = Null
    /\ ser = "none"
    /\ idx = 0
    /\ received_data_lines = <<>>
    /\ elapsed = 0
    /\ response = NoResponse
    /\ rx = <<>>
    /\ arrived = 0 /\ readErrors = 0
    /\ oplog = <<>>
    /\ other = NoRequest

Log(ev) == oplog' = Append(oplog, ev)

\* The device sends one more line while the port is open.  The handler
\* looks at the input buffer only in ser.in_waiting and ser.readline(), so a
\* line that arrived at any earlier moment is first seen at the next
\* in_waiting: arrivals are placed right before that check.
Arrive ==
    /\ ser = "open" /\ pc = "in_waiting"
    /\ arrived + readErrors < MaxEvents
    /\ \E l \in LinePool : rx' = Append(rx, l)
    /\ arrived' = arrived + 1
    /\ UNCHANGED <<other, endpoint, data, pc, port, baudrate, commands, ser, idx,
                   received_data_lines, elapsed, response, readErrors, oplog>>

\* ---- write_config ----
WGetJson ==
    /\ endpoint = "write_config" /\ pc = "get_json"
    /\ IF DataFalsy(data)
       THEN /\ response' = ErrorResponse(400, <<"No JSON data received">>)
            /\ pc' = "done"
       ELSE /\ pc' = "validate"
            /\ UNCHANGED response
    /\ UNCHANGED <<other, endpoint, data, port, baudrate, commands, ser, idx,
                   received_data_lines, elapsed, rx, arrived, readErrors, oplog>>

WValidate ==
    /\ endpoint = "write_config" /\ pc = "validate"
    /\ port' = Get(data, "port")
    /\ baudrate' = Get(data, "baudrate")
    /\ commands' = Get(data, "commands")
    /\ IF ~WriteConfigValid(port', baudrate', commands')
       THEN /\ response' = ErrorResponse(400, <<"Missing port, baudrate, or commands">>)
            /\ pc' = "done"
       ELSE /\ pc' = "open"
            /\ UNCHANGED response
    /\ received_data_lines' = <<>>
    /\ UNCHANGED <<other, endpoint, data, ser, idx, elapsed, rx, arrived, readErrors, oplog>>

\* ser = serial.Serial(...); time.sleep(0.1).  The clock is read only inside
\* the drain windows, so the time spent here is not observed.
WOpen ==
    /\ endpoint = "write_config" /\ pc = "open"
    /\ \E o \in OpenOutcomes(port, baudrate) :
         IF o.ok
         THEN /\ ser' = "open"
              /\ Log(<<"open">>)
              /\ idx' = 1
              /\ pc' = "for"
              /\ UNCHANGED response
         ELSE /\ Log(<<"fault", "open">>)
              /\ response' = WHandle(port, o.e)
              /\ pc' = "done"
              /\ UNCHANGED <<ser, idx>>
    /\ UNCHANGED <<other, endpoint, data, port, baudrate, commands,
                   received_data_lines, elapsed, rx, arrived, readErrors>>

\* for cmd in commands
WFor_CloseInLoop ==
    /\ endpoint = "write_config" /\ pc = "for"
    /\ IF commands.t # "list"
       THEN /\ Log(<<"fault", "iter">>)
            /\ response' = WHandle(port, NotIterableError)
            /\ pc' = "done"
            /\ UNCHANGED ser
       ELSE /\ pc' = IF idx <= Len(commands.v) THEN "write" ELSE "return"
            /\ IF idx > 1
               THEN ser' = "closed" /\ Log(<<"close">>)
               ELSE UNCHANGED <<ser, oplog>>
            /\ UNCHANGED response
    /\ UNCHANGED <<other, endpoint, data, port, baudrate, commands, idx,
                   received_data_lines, elapsed, rx, arrived, readErrors>>
WFor ==
    /\ endpoint = "write_config" /\ pc = "for"
    /\ IF commands.t # "list"
       THEN /\ Log(<<"fault", "iter">>)
            /\ response' = WHandle(port, NotIterableError)
            /\ pc' = "done"
       ELSE /\ pc' = IF idx <= Len(commands.v) THEN "write" ELSE "close"
            /\ UNCHANGED <<response, oplog>>
    /\ UNCHANGED <<other, endpoint, data, port, baudrate, commands, ser, idx,
                   received_data_lines, elapsed, rx, arrived, readErrors>>

\* full_command = cmd.strip() + '\r\n'; ser.write(full_command.encode('ascii'))
WWrite ==
    /\ endpoint = "write_config" /\ pc = "write"
    /\ LET full_command == FullCommand(CmdAt(commands.v, idx))
       IN IF ~CanEncodeAscii(full_command)
          THEN /\ Log(<<"fault", "encode">>)
               /\ response' = WHandle(port, EncodeError)
               /\ pc' = "done"
          ELSE \/ /\ Log(<<"write", full_command>>)
                  /\ pc' = "start_window"
                  /\ UNCHANGED response
               \/ /\ Log(<<"fault", "write">>)
                  /\ response' = WHandle(port, WriteError)
                  /\ pc' = "done"
    /\ UNCHANGED <<other, endpoint, data, port, baudrate, commands, ser, idx,
                   received_data_lines, elapsed, rx, arrived, readErrors>>

\* start_time = time.time()
WStartWindow ==
    /\ endpoint = "write_config" /\ pc = "start_window"
    /\ elapsed' = 0
    /\ Log(<<"drain">>)
    /\ pc' = "while"
    /\ UNCHANGED <<other, endpoint, data, port, baudrate, commands, ser, idx,
                   received_data_lines, response, rx, arrived, readErrors>>

\* while (time.time() - start_time) < READ_RESPONSE_DURATION
WWhile ==
    /\ endpoint = "write_config" /\ pc = "while"
    /\ IF WindowOpen(elapsed)
       THEN /\ pc' = "in_waiting"
            /\ UNCHANGED <<idx, oplog>>
       ELSE /\ Log(<<"drain_end">>)
            /\ idx' = idx + 1
            /\ pc' = "for"
    /\ UNCHANGED <<other, endpoint, data, port, baudrate, commands, ser,
                   received_data_lines, elapsed, response, rx, arrived,
                   readErrors>>

\* if ser.in_waiting > 0 -- evaluated outside the inner try
WInWaiting ==
    /\ endpoint = "write_config" /\ pc = "in_waiting"
    /\ \/ /\ pc' = IF Len(rx) > 0 THEN "readline" ELSE "sleep"
          /\ UNCHANGED <<response, oplog>>
       \/ \E e \in InWaitingErrors :
            /\ Log(<<"fault", "in_waiting">>)
            /\ response' = WHandle(port, e)
            /\ pc' = "done"
    /\ UNCHANGED <<other, endpoint, data, port, baudrate, commands, ser, idx,
                   received_data_lines, elapsed, rx, arrived, readErrors>>

\* the inner try: readline, decode, strip, append.  readline() returns at
\* the line terminator or after the read timeout, whichever comes first.
WReadline ==
    /\ endpoint = "write_config" /\ pc = "readline"
    /\ \/ /\ received_data_lines' = OnLine(received_data_lines, Head(rx))
          /\ Log(<<"read", Head(rx)>>)
          /\ rx' = Tail(rx)
          /\ UNCHANGED readErrors
       \/ /\ arrived + readErrors < MaxEvents
          /\ readErrors' = readErrors + 1
          /\ received_data_lines' = OnReadError(received_data_lines, "command", ReadError)
          /\ Log(<<"readerr">>)
          /\ rx' \in {rx, Tail(rx)}
    /\ \E d \in {0, Ticks(SERIAL_TIMEOUT)} : elapsed' = elapsed + d
    /\ pc' = "sleep"
    /\ UNCHANGED <<other, endpoint, data, port, baudrate, commands, ser, idx,
                   response, arrived>>

\* time.sleep(0.01): the clock may or may not have reached the next tick
WSleep_Stalled ==
    /\ endpoint = "write_config" /\ pc = "sleep"
    /\ elapsed' = elapsed
    /\ pc' = "while"
    /\ UNCHANGED <<other, endpoint, data, port, baudrate, commands, ser, idx,
                   received_data_lines, response, rx, arrived,
                   readErrors, oplog>>
WSleep ==
    /\ endpoint = "write_config" /\ pc = "sleep"
    /\ \E d \in 0..1 : elapsed' = elapsed + d
    /\ pc' = "while"
    /\ UNCHANGED <<other, endpoint, data, port, baudrate, commands, ser, idx,
                   received_data_lines, response, rx, arrived,
                   readErrors, oplog>>

\* ser.close()
WClose ==
    /\ endpoint = "write_config" /\ pc = "close"
    /\ ser' = "closed"
    /\ Log(<<"close">>)
    /\ pc' = "return"
    /\ UNCHANGED <<other, endpoint, data, port, baudrate, commands, idx,
                   received_data_lines, elapsed, response, rx, arrived,
                   readErrors>>

WReturn ==
    /\ endpoint = "write_config" /\ pc = "return"
    /\ response' = WSuccessResponse(received_data_lines)
    /\ pc' = "done"
    /\ UNCHANGED <<other, endpoint, data, port, baudrate, commands, ser, idx,
                   received_data_lines, elapsed, rx, arrived, readErrors, oplog>>

\* ---- save_config ----
SGetJson ==
    /\ endpoint = "save_config" /\ pc = "get_json"
    /\ IF DataFalsy(data)
       THEN /\ response' = ErrorResponse(400, <<"No JSON data received">>)
            /\ pc' = "done"
       ELSE /\ pc' = "validate"
            /\ UNCHANGED response
    /\ UNCHANGED <<other, endpoint, data, port, baudrate, commands, ser, idx,
                   received_data_lines, elapsed, rx, arrived, readErrors, oplog>>

SValidate ==
    /\ endpoint = "save_config" /\ pc = "validate"
    /\ port' = Get(data, "port")
    /\ baudrate' = Get(data, "baudrate")
    /\ IF ~SaveConfigValid(port', baudrate')
       THEN /\ response' = ErrorResponse(400, <<"Missing port or baudrate">>)
            /\ pc' = "done"
       ELSE /\ pc' = "open"
            /\ UNCHANGED response
    /\ UNCHANGED <<other, endpoint, data, commands, ser, idx, received_data_lines,
                   elapsed, rx, arrived, readErrors, oplog>>

SOpen ==
    /\ endpoint = "save_config" /\ pc = "open"
    /\ \E o \in OpenOutcomes(port, baudrate) :
         IF o.ok
         THEN /\ ser' = "open"
              /\ Log(<<"open">>)
              /\ pc' = "write"
              /\ UNCHANGED response
         ELSE /\ Log(<<"fault", "open">>)
              /\ response' = SHandle(port, o.e)
              /\ pc' = "done"
              /\ UNCHANGED ser
    /\ UNCHANGED <<other, endpoint, data, port, baudrate, commands, idx,
                   received_data_lines, elapsed, rx, arrived, readErrors>>

\* ser.write(save_command.encode('ascii'))
SWrite ==
    /\ endpoint = "save_config" /\ pc = "write"
    /\ IF ~CanEncodeAscii(SAVE_COMMAND)
       THEN /\ Log(<<"fault", "encode">>)
            /\ response' = SHandle(port, EncodeError)
            /\ pc' = "done"
       ELSE \/ /\ Log(<<"write", SAVE_COMMAND>>)
               /\ pc' = "start_window"
               /\ UNCHANGED response
            \/ /\ Log(<<"fault", "write">>)
               /\ response' = SHandle(port, WriteError)
               /\ pc' = "done"
    /\ UNCHANGED <<other, endpoint, data, port, baudrate, commands, ser, idx,
                   received_data_lines, elapsed, rx, arrived, readErrors>>

\* received_data_lines = []; start_time = time.time()
SStartWindow ==
    /\ endpoint = "save_config" /\ pc = "start_window"
    /\ received_data_lines' = <<>>
    /\ elapsed' = 0
    /\ Log(<<"drain">>)
    /\ pc' = "while"
    /\ UNCHANGED <<other, endpoint, data, port, baudrate, commands, ser, idx, response, rx, arrived, readErrors>>

SWhile ==
    /\ endpoint = "save_config" /\ pc = "while"
    /\ IF WindowOpen(elapsed)
       THEN /\ pc' = "in_waiting"
            /\ UNCHANGED oplog
       ELSE /\ Log(<<"drain_end">>)
            /\ pc' = "close"
    /\ UNCHANGED <<other, endpoint, data, port, baudrate, commands, ser, idx,
                   received_data_lines, elapsed, response, rx, arrived,
                   readErrors>>

SInWaiting ==
    /\ endpoint = "save_config" /\ pc = "in_waiting"
    /\ \/ /\ pc' = IF Len(rx) > 0 THEN "readline" ELSE "sleep"
          /\ UNCHANGED <<response, oplog>>
       \/ \E e \in InWaitingErrors :
            /\ Log(<<"fault", "in_waiting">>)
            /\ response' = SHandle(port, e)
            /\ pc' = "done"
    /\ UNCHANGED <<other, endpoint, data, port, baudrate, commands, ser, idx,
                   received_data_lines, elapsed, rx, arrived, readErrors>>

SReadline ==
    /\ endpoint = "save_config" /\ pc = "readline"
    /\ \/ /\ received_data_lines' = OnLine(received_data_lines, Head(rx))
          /\ Log(<<"read", Head(rx)>>)
          /\ rx' = Tail(rx)
          /\ UNCHANGED readErrors
       \/ /\ arrived + readErrors < MaxEvents
          /\ readErrors' = readErrors + 1
          /\ received_data_lines' = OnReadError(received_data_lines, "save", ReadError)
          /\ Log(<<"readerr">>)
          /\ rx' \in {rx, Tail(rx)}
    /\ \E d \in {0, Ticks(SERIAL_TIMEOUT)} : elapsed' = elapsed + d
    /\ pc' = "sleep"
    /\ UNCHANGED <<other, endpoint, data, port, baudrate, commands, ser, idx,
                   response, arrived>>

SSleep ==
    /\ endpoint = "save_config" /\ pc = "sleep"
    /\ \E d \in 0..1 : elapsed' = elapsed + d
    /\ pc' = "while"
    /\ UNCHANGED <<other, endpoint, data, port, baudrate, commands, ser, idx,
                   received_data_lines, response, rx, arrived,
                   readErrors, oplog>>

SClose_Skipped ==
    /\ endpoint = "save_config" /\ pc = "close"
    /\ pc' = "return"
    /\ UNCHANGED <<other, endpoint, data, port, baudrate, commands, ser, idx,
                   received_data_lines, elapsed, response, rx, arrived,
                   readErrors, oplog>>
SClose ==
    /\ endpoint = "save_config" /\ pc = "close"
    /\ ser' = "closed"
    /\ Log(<<"close">>)
    /\ pc' = "return"
    /\ UNCHANGED <<other, endpoint, data, port, baudrate, commands, idx,
                   received_data_lines, elapsed, response, rx, arrived,
                   readErrors>>

SReturn ==
    /\ endpoint = "save_config" /\ pc = "return"
    /\ response' = SSuccessResponse(received_data_lines)
    /\ pc' = "done"
    /\ UNCHANGED <<other, endpoint, data, port, baudrate, commands, ser, idx,
                   received_data_lines, elapsed, rx, arrived, readErrors, oplog>>

Next ==
    \/ Arrive
    \/ WGetJson \/ WValidate \/ WOpen \/ WFor \/ WWrite \/ WStartWindow
    \/ WWhile \/ WInWaiting \/ WReadline \/ WSleep \/ WClose \/ WReturn
    \/ SGetJson \/ SValidate \/ SOpen \/ SWrite \/ SStartWindow
    \/ SWhile \/ SInWaiting \/ SReadline \/ SSleep \/ SClose \/ SReturn

Spec == Init /\ [][Next]_vars

IsPrefix(a, b) == Len(a) <= Len(b) /\ \A i \in 1..Len(a) : a[i] = b[i]

\* ---- two requests ----
\* Every name a handler assigns is a local of that call, and a request opens
\* its own serial.Serial object: a thread that is switched out keeps its
\* locals and its port as they are.
Frame ==
    [endpoint |-> endpoint, data |-> data, pc |-> pc, port |-> port,
     baudrate |-> baudrate, commands |-> commands, ser |-> ser, idx |-> idx,
     received_data_lines |-> received_data_lines, elapsed |-> elapsed,
     response |-> response, rx |-> rx, arrived |-> arrived,
     readErrors |-> readErrors, oplog |-> oplog]

NewRequest(ep, d) ==
    [endpoint |-> ep, data |-> d, pc |-> "get_json", port |-> Null,
     baudrate |-> Null, commands |-> Null, ser |-> "none", idx |-> 0,
     received_data_lines |-> <<>>, elapsed |-> 0, response |-> NoResponse,
     rx |-> <<>>, arrived |-> 0, readErrors |-> 0, oplog |-> <<>>]

\* the interpreter switches to the other thread
Switch_SharedTranscript ==
    /\ other # NoRequest
    /\ other' = Frame
    /\ endpoint' = other.endpoint /\ data' = other.data /\ pc' = other.pc
    /\ port' = other.port /\ baudrate' = other.baudrate
    /\ commands' = other.commands /\ ser' = other.ser /\ idx' = other.idx
    /\ received_data_lines' = received_data_lines
    /\ elapsed' = other.elapsed /\ response' = other.response
    /\ rx' = other.rx /\ arrived' = other.arrived
    /\ readErrors' = other.readErrors /\ oplog' = other.oplog
Switch ==
    /\ other # NoRequest
    /\ other' = Frame
    /\ endpoint' = other.endpoint /\ data' = other.data /\ pc' = other.pc
    /\ port' = other.port /\ baudrate' = other.baudrate
    /\ commands' = other.commands /\ ser' = other.ser /\ idx' = other.idx
    /\ received_data_lines' = other.received_data_lines
    /\ elapsed' = other.elapsed /\ response' = other.response
    /\ rx' = other.rx /\ arrived' = other.arrived
    /\ readErrors' = other.readErrors /\ oplog' = other.oplog

\* the steps of the handlers
Handler ==
    \/ WGetJson \/ WValidate \/ WOpen \/ WFor \/ WWrite \/ WStartWindow
    \/ WWhile \/ WInWaiting \/ WReadline \/ WSleep \/ WClose \/ WReturn
    \/ SGetJson \/ SValidate \/ SOpen \/ SWrite \/ SStartWindow
    \/ SWhile \/ SInWaiting \/ SReadline \/ SSleep \/ SClose \/ SReturn

\* Two concurrent requests on different ports: write_config with one command
\* on PortName, save_config on OtherPortName.  The device behind each port
\* sends its own line, so that a transcript shows which port a line came from.
OtherPortName == "ttyUSB1"
DeviceLines(name) == IF name = PortName THEN {<<"K", "CR", "LF">>}
                     ELSE {<<"A", "LF">>}

ArriveTwo ==
    /\ ser = "open" /\ pc = "in_waiting"
    /\ arrived + readErrors < MaxEvents
    /\ \E l \in DeviceLines(port.v) : rx' = Append(rx, l)
    /\ arrived' = arrived + 1
    /\ UNCHANGED <<other, endpoint, data, pc, port, baudrate, commands, ser, idx,
                   received_data_lines, elapsed, response, readErrors, oplog>>

InitTwo ==
    /\ endpoint = "write_config"
    /\ data = [t |-> "obj", port |-> JStr(PortName), baudrate |-> JInt(9600),
               commands |-> JList(<< <<"A">> >>)]
    /\ pc = "get_json"
    /\ port = Null /\ baudrate = Null /\ commands = Null
    /\ ser = "none"
    /\ idx = 0
    /\ received_data_lines = <<>>
    /\ elapsed = 0
    /\ response = NoResponse
    /\ rx = <<>>
    /\ arrived = 0 /\ readErrors = 0
    /\ oplog = <<>>
    /\ other = NewRequest("save_config",
                          [t |-> "obj", port |-> JStr(OtherPortName),
                           baudrate |-> JInt(9600), commands |-> Absent])

NextTwo == Handler \/ ArriveTwo \/ Switch

SpecTwo == InitTwo /\ [][NextTwo]_vars

\* ---- write_config(["SAVECONFIG"]) and save_config side by side ----
\* The same port and baudrate are sent to both endpoints; write_config gets
\* the one-command list ["SAVECONFIG"].  write_config runs first, then
\* save_config runs against a port that behaves as it did for write_config.
SaveText == <<"S", "A", "V", "E", "C", "O", "N", "F", "I", "G">>

\* what the port did, as far as the transport log tells: the outcome of the
\* open, of each write, of each in_waiting and of each readline
IsPortOutcome(ev) ==
    \/ ev[1] \in {"open", "write", "read", "readerr"}
    \/ ev[1] = "fault" /\ ev[2] \in {"open", "write", "in_waiting"}
PortBehaviour(log) ==
    LET outcomes == SelectSeq(log, IsPortOutcome)
    IN [k \in DOMAIN outcomes |->
          IF outcomes[k][1] = "write" THEN <<"write">> ELSE outcomes[k]]

InitPair ==
    /\ endpoint = "write_config"
    /\ \E p \in PortVals, b \in BaudVals :
         /\ data = [t |-> "obj", port |-> p, baudrate |-> b,
                    commands |-> JList(<<SaveText>>)]
         /\ other = NewRequest("save_config",
                               [t |-> "obj", port |-> p, baudrate |-> b,
                                commands |-> Absent])
    /\ pc = "get_json"
    /\ port = Null /\ baudrate = Null /\ commands = Null
    /\ ser = "none"
    /\ idx = 0
    /\ received_data_lines = <<>>
    /\ elapsed = 0
    /\ response = NoResponse
    /\ rx = <<>>
    /\ arrived = 0 /\ readErrors = 0
    /\ oplog = <<>>

\* write_config has returned: what is kept of it is what it did and what it
\* answered (its clock and the input left in its port are dropped), and
\* save_config starts
Handover ==
    /\ pc = "done" /\ other.pc = "get_json"
    /\ other' = [Frame EXCEPT !.rx = <<>>, !.elapsed = 0, !.arrived = 0,
                              !.readErrors = 0]
    /\ endpoint' = other.endpoint /\ data' = other.data /\ pc' = other.pc
    /\ port' = other.port /\ baudrate' = other.baudrate
    /\ commands' = other.commands /\ ser' = other.ser /\ idx' = other.idx
    /\ received_data_lines' = other.received_data_lines
    /\ elapsed' = other.elapsed /\ response' = other.response
    /\ rx' = other.rx /\ arrived' = other.arrived
    /\ readErrors' = other.readErrors /\ oplog' = other.oplog

\* the port does for save_config nothing that it did not do for write_config:
\* its calls have the outcomes they had, and the device sends only lines
\* that write_config read
Replays ==
    other.pc = "done" =>
        /\ IsPrefix(PortBehaviour(oplog'), PortBehaviour(other.oplog))
        /\ \A k \in DOMAIN rx' :
              \E i \in DOMAIN other.oplog : other.oplog[i] = <<"read", rx'[k]>>

NextPair ==
    \/ Arrive /\ Replays
    \/ WGetJson /\ Replays
    \/ WValidate /\ Replays
    \/ WOpen /\ Replays
    \/ WFor /\ Replays
    \/ WWrite /\ Replays
    \/ WStartWindow /\ Replays
    \/ WWhile /\ Replays
    \/ WInWaiting /\ Replays
    \/ WReadline /\ Replays
    \/ WSleep /\ Replays
    \/ WClose /\ Replays
    \/ WReturn /\ Replays
    \/ SGetJson /\ Replays
    \/ SValidate /\ Replays
    \/ SOpen /\ Replays
    \/ SWrite /\ Replays
    \/ SStartWindow /\ Replays
    \/ SWhile /\ Replays
    \/ SInWaiting /\ Replays
    \/ SReadline /\ Replays
    \/ SSleep /\ Replays
    \/ SClose /\ Replays
    \/ SReturn /\ Replays
    \/ Handover

SpecPair == InitPair /\ [][NextPair]_vars

\* ---- progress ----
\* The handler thread keeps running and every call it makes returns or raises
\* (the port is opened with timeout and write_timeout, time.sleep returns), and
\* the clock keeps advancing: a loop that sleeps again and again sees the
\* next tick at some point.
ClockAdvances ==
    /\ SF_vars(WSleep /\ elapsed' > elapsed)
    /\ SF_vars(SSleep /\ elapsed' > elapsed)

\* Progress does not depend on what a command says beyond whether it can be
\* encoded: the requests are those of Init whose commands come from this pool.
LiveCmdPool == { <<"A">>, <<"xE9">> }

InitLive ==
    /\ Init
    /\ (data.t = "obj" /\ data.commands \notin {Absent, Null}) =>
           \A k \in DOMAIN data.commands.v : data.commands.v[k] \in LiveCmdPool

SpecLive == InitLive /\ [][Next]_vars /\ WF_vars(Next) /\ ClockAdvances

\* ---- single-command requests over all short command strings ----
\* write_config requests {port, baudrate, commands: [c]} for every string c of
\* at most MaxCmdLen characters, run against a device that sends nothing.
CmdChars == {"SP", "CR", "A", "xE9"}
CmdStrings == SeqsUpTo(CmdChars, MaxCmdLen)

InitCmd ==
    /\ endpoint = "write_config"
    /\ \E c \in CmdStrings :
         data = [t |-> "obj", port |-> JStr(PortName), baudrate |-> JInt(9600),
                 commands |-> JList(<<c>>)]
    /\ pc = "get_json"
    /\ port = Null /\ baudrate = Null /\ commands = Null
    /\ ser = "none"
    /\ idx = 0
    /\ received_data_lines = <<>>
    /\ elapsed = 0
    /\ response = NoResponse
    /\ rx = <<>>
    /\ arrived = 0 /\ readErrors = 0
    /\ oplog = <<>>
    /\ other = NoRequest

NextCmd ==
    \/ WGetJson \/ WValidate \/ WOpen \/ WFor \/ WWrite \/ WStartWindow
    \/ WWhile \/ WInWaiting \/ WSleep \/ WClose \/ WReturn

SpecCmd == InitCmd /\ [][NextCmd]_vars

\* ---- observations on the transport log ----
Count(tag) == Cardinality({i \in DOMAIN oplog : oplog[i][1] = tag})
Faulted(where) == \E i \in DOMAIN oplog : oplog[i][1] = "fault" /\ oplog[i][2] = where
IsWrite(ev) == ev[1] = "write"
Writes == [i \in DOMAIN SelectSeq(oplog, IsWrite) |-> SelectSeq(oplog, IsWrite)[i][2]]
InWindow == pc \in {"while", "in_waiting", "readline", "sleep"}
Responded == response.code # 0
LastEvent == oplog[Len(oplog)]

\* text a received line shows once undecodable bytes and surrounding blanks are gone
VisibleText(raw) == Strip(SelectSeq(raw, IsAscii))
ProducesEntry(ev) == \/ ev[1] = "readerr"
                     \/ ev[1] = "read" /\ VisibleText(ev[2]) # <<>>
\* position in the transcript of the entry produced by the i-th transport call
Pos(i) == Cardinality({j \in 1..i : ProducesEntry(oplog[j])})
IsErrorEntry(entry) == entry[1] = "Error reading during "

\* C1: once the open succeeded, a response is emitted only after the handle
\* was closed exactly once (stated as claimed; refuted by the code).
C1_ClosedBeforeResponse ==
    (Responded /\ Count("open") >= 1) => (ser = "closed" /\ Count("close") = 1)

\* C2: a body with port, baudrate or commands missing or null (port or
\* baudrate for save_config) never reaches the serial port and is answered
\* with HTTP 400 and status "error".
BodyLacksRequired ==
    \/ data.t = "nodata"
    \/ /\ data.t = "obj"
       /\ \/ IsNone(data.port)
          \/ IsNone(data.baudrate)
          \/ endpoint = "write_config" /\ IsNone(data.commands)
C2_MissingFieldsRejected ==
    BodyLacksRequired =>
        /\ oplog = <<>> /\ ser = "none"
        /\ pc = "done" => (response.code = 400 /\ response.body.status = "error")
C2_Witness ==
    /\ pc = "done" /\ endpoint = "write_config" /\ data.t = "obj"
    /\ Truthy(data.port) /\ Truthy(data.baudrate) /\ data.commands.t = "null"
    /\ response.code = 400

\* C3: the writes are a prefix of the commands in the caller's order, a
\* write is followed by its drain window and the next write comes only after
\* that window ended; a successful request wrote every command exactly once.
ExpectedWrites == [i \in DOMAIN commands.v |-> Strip(commands.v[i]) \o <<"CR", "LF">>]
IsExchange(ev) == ev[1] \in {"write", "drain", "drain_end"}
Exchange == SelectSeq(oplog, IsExchange)
C3_WritesInOrder ==
    (endpoint = "write_config" /\ commands.t = "list") =>
        /\ IsPrefix(Writes, ExpectedWrites)
        /\ \A j \in DOMAIN Exchange :
             Exchange[j][1] = (CASE j % 3 = 1 -> "write"
                                 [] j % 3 = 2 -> "drain"
                                 [] OTHER -> "drain_end")
        /\ Count("drain") <= Count("write")
        /\ response.code = 200 => Writes = ExpectedWrites
C3_Witness ==
    /\ endpoint = "write_config" /\ response.code = 200
    /\ Len(Writes) = 2 /\ Writes[1] # Writes[2]

\* C4: with the port open and every write sent, an I/O error during a poll
\* never changes the outcome: the request ends with HTTP 200 and status
\* "success" (stated as claimed; refuted by the code).
C4_PollErrorsNeverAbort ==
    (pc = "done" /\ Count("open") = 1 /\ ~Faulted("write") /\ ~Faulted("encode")) =>
        (response.code = 200 /\ response.body.status = "success")

OnlyUndecodable(raw) ==
    /\ \E k \in DOMAIN raw : ~IsAscii(raw[k])
    /\ \A k \in DOMAIN raw : IsAscii(raw[k]) => IsSpace(raw[k])
C6_BinaryLinesAnnotated ==
    \A i \in DOMAIN oplog :
        (oplog[i][1] = "read" /\ OnlyUndecodable(oplog[i][2])) =>
            \E k \in DOMAIN received_data_lines : received_data_lines[k] = BinaryAnnotation

\* C7: a drain window is left only when the time elapsed since its start
\* has reached READ_RESPONSE_DURATION; reading a line, blank or not, leaves
\* the request inside the window.
C7_WindowRunsFullDuration ==
    /\ (oplog # <<>> /\ LastEvent[1] = "drain_end") =>
          elapsed >= READ_RESPONSE_DURATION * TicksPerSecond
    /\ (oplog # <<>> /\ LastEvent[1] = "read") => InWindow
    /\ (pc \in {"for", "write", "start_window", "close", "return"} \/ response.code = 200)
          => Count("drain_end") = Count("drain")
C7_Witness ==
    /\ response.code = 200
    /\ \E i \in DOMAIN oplog :
         /\ i + 3 <= Len(oplog)
         /\ oplog[i][1] = "drain"
         /\ oplog[i + 1][1] = "read" /\ oplog[i + 2][1] = "read"
         /\ VisibleText(oplog[i + 1][2]) # <<>> /\ VisibleText(oplog[i + 2][2]) = <<>>
         /\ oplog[i + 3][1] = "drain_end"
    /\ \E i \in DOMAIN oplog :
         /\ i + 1 <= Len(oplog)
         /\ oplog[i][1] = "drain" /\ oplog[i + 1][1] = "drain_end"

\* C8 as claimed: every valid write_config request with an empty commands
\* list does one open and one close, nothing in between, and answers 200,
\* "success" and an empty received_data.
EmptyCommandsRequest ==
    /\ endpoint = "write_config" /\ data.t = "obj"
    /\ Truthy(data.port) /\ Truthy(data.baudrate)
    /\ data.commands.t = "list" /\ data.commands.v = <<>>
OpenClosePairOnly ==
    /\ Len(oplog) = 2 /\ oplog[1][1] = "open" /\ oplog[2][1] = "close"
    /\ response.code = 200 /\ response.body.status = "success"
    /\ response.body.received_data = <<>>
C8_EmptyCommandsAlwaysSucceed ==
    (pc = "done" /\ EmptyCommandsRequest) => OpenClosePairOnly

\* C8 amended: the same, for the requests whose open succeeds.
C8_EmptyCommandsOpenClose ==
    (pc = "done" /\ EmptyCommandsRequest /\ Count("open") = 1) => OpenClosePairOnly
C8_Witness ==
    pc = "done" /\ EmptyCommandsRequest /\ Count("open") = 1

\* C9: a failed open is answered with HTTP 500, status "error" and a
\* message that contains the port name, with no write, drain or close
\* (stated as claimed; refuted by the code).
C9_OpenFailureNamesPort ==
    Faulted("open") =>
        /\ pc = "done" /\ Len(oplog) = 1
        /\ response.code = 500 /\ response.body.status = "error"
        /\ \E k \in DOMAIN response.body.message : response.body.message[k] = PortName

\* C10: a failed write of command k ends the exchange: nothing is written
\* or drained after it and the answer is HTTP 500, status "error", without a
\* received_data field.
C10_WriteFailureAborts ==
    (endpoint = "write_config" /\ Faulted("write")) =>
        /\ pc = "done"
        /\ LastEvent[1] = "fault" /\ LastEvent[2] = "write"
        /\ Len(Writes) = idx - 1 /\ Count("drain") = idx - 1
        /\ response.code = 500 /\ response.body.status = "error"
        /\ DOMAIN response.body = {"status", "message"}
C10_Witness ==
    /\ endpoint = "write_config" /\ Faulted("write")
    /\ idx = 2 /\ received_data_lines # <<>>

\* ---- C11 ----
SaveRequestValid ==
    /\ endpoint = "save_config" /\ data.t = "obj"
    /\ Truthy(data.port) /\ Truthy(data.baudrate)
SaveConfigBytes == <<"S", "A", "V", "E", "C", "O", "N", "F", "I", "G", "CR", "LF">>
IsCall(ev) == ev[1] \in {"open", "write", "drain", "close"}
Calls == SelectSeq(oplog, IsCall)
OneWriteOneWindow ==
    /\ Len(Calls) = 4
    /\ Calls[1][1] = "open" /\ Calls[2][1] = "write" /\ Calls[2][2] = SaveConfigBytes
    /\ Calls[3][1] = "drain" /\ Calls[4][1] = "close"

\* C11 as claimed: every save_config request with valid port and baudrate
\* does open, one write of SAVECONFIG CR LF, one drain window, close.
C11_SaveAlwaysWritesOnce ==
    (pc = "done" /\ SaveRequestValid) => OneWriteOneWindow

\* C11 amended: a valid save_config request never writes anything but
\* SAVECONFIG CR LF, never writes twice and never drains twice; a write that
\* succeeded is followed by its drain window; a request answered with 200 did
\* exactly open, write, drain window, close.
C11_SaveWritesOnce ==
    SaveRequestValid =>
        /\ Count("write") <= 1 /\ Count("drain") <= 1
        /\ \A i \in DOMAIN Writes : Writes[i] = SaveConfigBytes
        /\ (Count("write") = 1 /\ pc # "start_window") => Count("drain") = 1
        /\ response.code = 200 => OneWriteOneWindow
C11_Witness ==
    SaveRequestValid /\ response.code = 200 /\ OneWriteOneWindow

\* ---- C12 ----
\* the entry a transport call leaves in the transcript
EntryOf(ev) == IF ev[1] = "readerr"
               THEN <<"Error reading during ",
                      IF endpoint = "write_config" THEN "command" ELSE "save",
                      ": ", ReadError.text>>
               ELSE <<"Received: ">> \o VisibleText(ev[2])
ProducingCalls == SelectSeq(oplog, ProducesEntry)
ExpectedTranscript == [k \in DOMAIN ProducingCalls |-> EntryOf(ProducingCalls[k])]
RECURSIVE NewlineSeparated(_)
NewlineSeparated(lines) ==
    IF Len(lines) = 0 THEN <<>>
    ELSE IF Len(lines) = 1 THEN lines[1]
    ELSE NewlineSeparated(SubSeq(lines, 1, Len(lines) - 1)) \o <<"LF">> \o lines[Len(lines)]
TranscriptInOrder ==
    /\ received_data_lines = ExpectedTranscript
    /\ response.code = 200 =>
          response.body.received_data = NewlineSeparated(ExpectedTranscript)
TranscriptGrows == IsPrefix(received_data_lines, received_data_lines')

\* C12: the transcript is, at every moment, the entries of the lines read so
\* far in reading order; it changes only by appending at its end; on success
\* received_data is those entries separated by single newlines and nothing else.
C12_TranscriptAppendOnly == []TranscriptInOrder /\ [][TranscriptGrows]_vars
C12_Witness ==
    /\ endpoint = "write_config" /\ response.code = 200
    /\ \E i, j, k \in DOMAIN oplog :
         /\ i < j /\ j < k
         /\ ProducesEntry(oplog[i]) /\ oplog[j][1] = "write" /\ ProducesEntry(oplog[k])

\* ---- C17 ----
HasNonAscii(str) == \E k \in DOMAIN str : str[k] \in NonAsciiChars

AllCommandsWritten ==
    IF endpoint = "write_config" THEN Writes = ExpectedWrites
    ELSE Writes = <<SaveConfigBytes>>
StatusMatchesCode ==
    /\ Responded <=> pc = "done"
    /\ Responded =>
         /\ response.code \in {200, 400, 500}
         /\ response.body.status \in {"success", "error"}
         /\ response.body.status = "success" <=> response.code = 200
         /\ response.body.status = "error" <=> response.code \in {400, 500}
         /\ response.code = 200 =>
              /\ "received_data" \in DOMAIN response.body
              /\ Count("open") = 1 /\ Count("close") = 1 /\ ser = "closed"
              /\ AllCommandsWritten
         /\ response.code # 200 => "received_data" \notin DOMAIN response.body
ResponseIsFinal == Responded => response' = response

\* C18: a response exists exactly when the handler has returned; its status
\* is "success" with code 200, received_data, an opened and closed port and
\* every command written, or "error" with code 400 or 500 and no
\* received_data; once emitted the response never changes.
C18_StatusConsistent == []StatusMatchesCode /\ [][ResponseIsFinal]_vars
C18_Witness ==
    /\ response.code = 200 /\ endpoint = "write_config"
    /\ Len(Writes) = 2 /\ response.body.received_data # <<>>

\* ---- C19 ----
IsOpenAttempt(ev) == ev[1] = "open" \/ (ev[1] = "fault" /\ ev[2] = "open")
IsPortUse(ev) == \/ ev[1] \in {"write", "drain", "read", "readerr", "drain_end", "close"}
                 \/ ev[1] = "fault" /\ ev[2] \in {"write", "in_waiting"}
\* the last write, drain or window end before position i
RECURSIVE LastExchangeBefore(_)
LastExchangeBefore(i) ==
    IF i <= 1 THEN "none"
    ELSE IF IsExchange(oplog[i - 1]) THEN oplog[i - 1][1]
    ELSE LastExchangeBefore(i - 1)

\* C19: the port is opened at most once, as the first transport call; it is
\* written and read only after that open succeeded and before the close; a
\* drain window starts right after a write returned and the reads are inside a
\* window; close is called only on an opened port and ends the exchange; the
\* successful response comes after the close.
C19_Lifecycle ==
    /\ \A i \in DOMAIN oplog : IsOpenAttempt(oplog[i]) => i = 1
    /\ \A i \in DOMAIN oplog : IsPortUse(oplog[i]) => oplog[1][1] = "open"
    /\ \A i \in DOMAIN oplog : oplog[i][1] = "close" => i = Len(oplog)
    /\ \A i \in DOMAIN oplog : oplog[i][1] = "drain" => (i > 1 /\ oplog[i - 1][1] = "write")
    /\ \A i \in DOMAIN oplog :
         oplog[i][1] \in {"read", "readerr"} => LastExchangeBefore(i) = "drain"
    /\ \A i \in DOMAIN oplog :
         oplog[i][1] = "write" => LastExchangeBefore(i) \in {"none", "drain_end"}
    /\ ser = "open" <=> (Count("open") = 1 /\ Count("close") = 0)
    /\ ser = "closed" <=> Count("close") = 1
    /\ response.code = 200 => LastEvent[1] = "close"
C19_Witness ==
    /\ response.code = 200 /\ Count("write") = 2 /\ Count("read") >= 1
    /\ LastEvent[1] = "close"

\* ---- C13 ----
\* trim: the part of str between its first and its last non-blank character
Trimmed(str) ==
    LET solid == {k \in DOMAIN str : str[k] \notin Whitespace}
    IN IF solid = {} THEN <<>>
       ELSE SubSeq(str, CHOOSE k \in solid : \A j \in solid : k <= j,
                        CHOOSE k \in solid : \A j \in solid : k >= j)

\* C13: the bytes of every write are the command without its surrounding
\* blanks, followed by CR LF, all of them 7-bit.
C13_WrittenBytes ==
    (endpoint = "write_config" /\ commands.t = "list") =>
        \A k \in DOMAIN Writes :
            /\ k <= Len(commands.v)
            /\ Writes[k] = Trimmed(commands.v[k]) \o <<"CR", "LF">>
            /\ \A n \in DOMAIN Writes[k] : Writes[k][n] \notin NonAsciiChars
C13_Witness ==
    /\ endpoint = "write_config" /\ commands.t = "list" /\ Len(Writes) = 1
    /\ commands.v[1] = <<"SP", "A", "CR">>
    /\ Writes[1] = <<"A", "CR", "LF">>

\* ---- C16 ----
\* C16: every request ends with a response, emitted at the step that ends
\* the handler and only there, and every drain window that was entered is left.
C16_Terminates ==
    /\ <>[](pc = "done" /\ Responded)
    /\ [](Responded <=> pc = "done")
    /\ (InWindow ~> ~InWindow)
C16_Witness ==
    /\ pc = "done" /\ response.code = 200
    /\ endpoint = "write_config" /\ Count("drain_end") = 2
    /\ Count("read") >= 1

\* ---- C15 ----
PhaseOf(f) == IF f.endpoint = "write_config" THEN "command" ELSE "save"
EntryFor(f, ev) == IF ev[1] = "readerr"
                   THEN <<"Error reading during ", PhaseOf(f), ": ", ReadError.text>>
                   ELSE <<"Received: ">> \o VisibleText(ev[2])
\* the transcript a request has when it runs alone and its port behaves as
\* its own transport log says
TranscriptFor(f) ==
    LET producing == SelectSeq(f.oplog, ProducesEntry)
    IN [k \in DOMAIN producing |-> EntryFor(f, producing[k])]
OwnLinesOnly(f) ==
    /\ \A i \in DOMAIN f.oplog :
         f.oplog[i][1] = "read" => f.oplog[i][2] \in DeviceLines(f.data.port.v)
    /\ \A k \in DOMAIN f.received_data_lines :
         LET entry == f.received_data_lines[k]
         IN IF IsErrorEntry(entry) THEN entry[2] = PhaseOf(f)
            ELSE \E l \in DeviceLines(f.data.port.v) :
                    entry = <<"Received: ">> \o VisibleText(l)
FaultErrors(f, where) ==
    CASE where = "open" -> {o.e : o \in {x \in OpenOutcomes(f.port, f.baudrate) : ~x.ok}}
      [] where = "write" -> {WriteError}
      [] where = "in_waiting" -> InWaitingErrors
      [] where = "encode" -> {EncodeError}
      [] OTHER -> {NotIterableError}
\* the responses the request gives alone for its own transport log
OutcomeAlone(f) ==
    LET last == f.oplog[Len(f.oplog)]
    IN IF last[1] = "close"
       THEN {IF f.endpoint = "write_config" THEN WSuccessResponse(TranscriptFor(f))
             ELSE SSuccessResponse(TranscriptFor(f))}
       ELSE {IF f.endpoint = "write_config" THEN WHandle(f.port, e)
             ELSE SHandle(f.port, e) : e \in FaultErrors(f, last[2])}
Isolated(f) ==
    /\ f.received_data_lines = TranscriptFor(f)
    /\ OwnLinesOnly(f)
    /\ f.pc # "done" => f.response = NoResponse
    /\ (f.pc = "done" /\ f.oplog # <<>>) => f.response \in OutcomeAlone(f)

\* C15: of two requests that run interleaved on different ports, each has
\* the transcript of the lines and read errors of its own port, in the order
\* its port delivered them, and gives the response that its own port's
\* behaviour determines.
C15_NoInterference ==
    other # NoRequest => (Isolated(Frame) /\ Isolated(other))
C15_Witness ==
    /\ other # NoRequest
    /\ InWindow /\ other.pc \in {"while", "in_waiting", "readline", "sleep"}
    /\ Len(received_data_lines) = 2 /\ Len(other.received_data_lines) = 2
    /\ \E k \in 1..2 : ~IsErrorEntry(received_data_lines[k])
    /\ \E k \in 1..2 : ~IsErrorEntry(other.received_data_lines[k])

\* ---- C14 ----
\* an entry, or a joined transcript, with the phase name made anonymous
PhaseBlind(text) ==
    [k \in DOMAIN text |-> IF text[k] \in {"command", "save"} THEN "phase" ELSE text[k]]
TranscriptBlind(lines) == [k \in DOMAIN lines |-> PhaseBlind(lines[k])]
BothReturned == other # NoRequest /\ pc = "done" /\ other.pc = "done"
SamePortBehaviour == PortBehaviour(oplog) = PortBehaviour(other.oplog)

\* C14: when write_config with ["SAVECONFIG"] and save_config have both
\* returned and the port did the same for both (open, write, lines, read
\* errors), they made the same transport calls with the same bytes, left the
\* handle in the same state, answer with the same code and status, and have
\* the same transcript but for the phase name in the read-error entries.
C14_SameLifecycle ==
    (BothReturned /\ SamePortBehaviour) =>
        /\ oplog = other.oplog
        /\ ser = other.ser
        /\ response.code = other.response.code
        /\ response.body.status = other.response.body.status
        /\ TranscriptBlind(received_data_lines) = TranscriptBlind(other.received_data_lines)
        /\ ("received_data" \in DOMAIN response.body) <=>
              ("received_data" \in DOMAIN other.response.body)
        /\ response.code = 200 =>
              PhaseBlind(response.body.received_data) =
                 PhaseBlind(other.response.body.received_data)
C14_Witness ==
    /\ BothReturned /\ SamePortBehaviour
    /\ endpoint = "save_config" /\ other.endpoint = "write_config"
    /\ response.code = 200
    /\ \E k \in DOMAIN received_data_lines : IsErrorEntry(received_data_lines[k])
    /\ \E k \in DOMAIN received_data_lines : ~IsErrorEntry(received_data_lines[k])
    /\ received_data_lines # other.received_data_lines

====
